---- MODULE Spec2Model ----
(***************************************************************************)
(* Character-level joke generator (Humour Generation/rnn_tensorflow.ipynb). *)
(* The notebook's data pipeline (cleaning, marking, vocabulary, windowing)  *)
(* and its generation loop generate_seq, as state machines.                 *)
(*                                                                          *)
(* A Python string is a sequence of one-character strings.  A Python dict   *)
(* is a sequence of <<key, value>> pairs in insertion order (CPython 3.6,   *)
(* the notebook's interpreter).  The key 'PAD' is one three-character key.  *)
(***************************************************************************)
EXTENDS Integers, Sequences, FiniteSets, TLC

\* ---------------------------------------------------------------- bounds
MaxJokes == 2
MaxTotal == 2
MaxW == 2
MaxSeed == 2
MaxChars == 2
MaxExamples == 3
MaxEpochs == 2

\* train's batch_size, 128 in the notebook: scaled down so that a pass over
\* MaxExamples examples has a full batch and a shorter last one.
batch_size == 2

\* Characters a row of shortjokes.csv is drawn from in the model.
RawAlphabet == {"a", "b", "~", "^", "x08", "x10", "\n"}

\* Characters a seed text is drawn from in the model.
SeedAlphabet == {"a", "b", "~", "^"}

\* ------------------------------------------------------ Python primitives
\* str.replace(char, ''): every occurrence of one character deleted.
RECURSIVE replaceWithNext(_, _)
replaceWithNext(text, char) ==
    IF text = <<>> THEN <<>>
    ELSE IF Head(text) = char
         THEN IF Len(text) = 1 THEN <<>> ELSE replaceWithNext(Tail(Tail(text)), char)
         ELSE <<Head(text)>> \o replaceWithNext(Tail(text), char)
RECURSIVE replaceFirst(_, _)
replaceFirst(text, char) ==
    IF text = <<>> THEN <<>>
    ELSE IF Head(text) = char THEN Tail(text)
         ELSE <<Head(text)>> \o replaceFirst(Tail(text), char)
RECURSIVE replace(_, _)
replace(text, char) ==
    IF text = <<>> THEN <<>>
    ELSE IF Head(text) = char THEN replace(Tail(text), char)
         ELSE <<Head(text)>> \o replace(Tail(text), char)

\* '\n'.join(rows)
RECURSIVE joinNoSeparator(_)
joinNoSeparator(rows) ==
    IF rows = <<>> THEN <<>> ELSE rows[1] \o joinNoSeparator(Tail(rows))
RECURSIVE join(_)
join(rows) ==
    IF rows = <<>> THEN <<>>
    ELSE IF Len(rows) = 1 THEN rows[1]
         ELSE rows[1] \o <<"\n">> \o join(Tail(rows))

\* set(text)
CharSet(text) == {text[i] : i \in 1..Len(text)}

\* list(s) for a set s: the elements once each, in an order the interpreter
\* picks (string hashing is randomised per process).
ListsOf(s) ==
    {l \in [1..Cardinality(s) -> s] : \A i, j \in 1..Cardinality(s) : l[i] = l[j] => i = j}

\* dict: d[k] = v keeps the position of an existing key, appends a new one.
HasKey(d, k) == \E i \in 1..Len(d) : d[i][1] = k
DictSet(d, k, v) ==
    IF HasKey(d, k)
    THEN [i \in 1..Len(d) |-> IF d[i][1] = k THEN <<k, v>> ELSE d[i]]
    ELSE Append(d, <<k, v>>)
\* d[k] for a key that is present.
DictGet(d, k) == d[CHOOSE i \in 1..Len(d) : d[i][1] = k][2]
Keys(d) == {d[i][1] : i \in 1..Len(d)}
Values(d) == {d[i][2] : i \in 1..Len(d)}

\* ------------------------------------------------------------ the notebook
removeCharsMissesTilde(text) == replace(replace(replace(text, "x08"), "x10"), "^")
removeChars(text) ==
    replace(replace(replace(replace(text, "x08"), "x10"), "~"), "^")

mark(x) == <<"~">> \o x \o <<"^">>

\* {ch: i+3 for i, ch in enumerate(chars)} then the three sentinel entries.
RECURSIVE EnumeratedFromFour(_, _, _)
EnumeratedFromFour(d, chs, i) ==
    IF i > Len(chs) THEN d
    ELSE EnumeratedFromFour(DictSet(d, chs[i], (i - 1) + 4), chs, i + 1)
RECURSIVE EnumeratedFromTwo(_, _, _)
EnumeratedFromTwo(d, chs, i) ==
    IF i > Len(chs) THEN d
    ELSE EnumeratedFromTwo(DictSet(d, chs[i], (i - 1) + 2), chs, i + 1)
RECURSIVE Enumerated(_, _, _)
Enumerated(d, chs, i) ==
    IF i > Len(chs) THEN d
    ELSE Enumerated(DictSet(d, chs[i], (i - 1) + 3), chs, i + 1)
BuildCharLabels(chs) ==
    DictSet(DictSet(DictSet(Enumerated(<<>>, chs, 1), "PAD", 0), "~", 1), "^", 2)

\* {i+3: ch for i, ch in enumerate(chars)} then the three sentinel entries.
RECURSIVE EnumeratedInv(_, _, _)
EnumeratedInv(d, chs, i) ==
    IF i > Len(chs) THEN d
    ELSE EnumeratedInv(DictSet(d, (i - 1) + 3, chs[i]), chs, i + 1)
BuildLabelsChar(chs) ==
    DictSet(DictSet(DictSet(EnumeratedInv(<<>>, chs, 1), 0, "PAD"), 1, "~"), 2, "^")

\* keras to_categorical(y, num_classes): one row of num_classes zeros per
\* code, with a 1 at the code's index.
to_categorical(y, num_classes) ==
    [i \in 1..Len(y) |-> [c \in 0..(num_classes - 1) |-> IF c = y[i] THEN 1 ELSE 0]]

\* The codes a one-hot matrix stands for (the inverse of to_categorical).
CodeOf(row) == CHOOSE c \in DOMAIN row : row[c] = 1
CodesOf(rows) == [i \in 1..Len(rows) |-> CodeOf(rows[i])]

\* [d[char] for char in z]: the codes, or KeyError (ok = FALSE) when some
\* character of z is no key of d.
Encodable(d, z) == \A i \in 1..Len(z) : HasKey(d, z[i])
Encode(d, z) == [i \in 1..Len(z) |-> DictGet(d, z[i])]
TryEncodeSkipsUnknown(d, z) ==
    [ok |-> TRUE, codes |-> Encode(d, SelectSeq(z, LAMBDA c : HasKey(d, c)))]
TryEncode(d, z) ==
    IF Encodable(d, z) THEN [ok |-> TRUE, codes |-> Encode(d, z)]
    ELSE [ok |-> FALSE, codes |-> <<>>]

\* seq = [1]*max_len + seq + [2]   (max_len is 20 in the notebook; the
\* model runs the cell for every max_len of 1..MaxW)
PaddedWithPad(seq, W) == [j \in 1..W |-> 0] \o seq \o <<2>>
PaddedDropsEnd(seq, W) == [j \in 1..W |-> 1] \o seq
Padded(seq, W) == [j \in 1..W |-> 1] \o seq \o <<2>>

\* for i in range(len(seq)): if i+max_len < len(seq): one (window, label).
\* The offsets i (0-based) that emit, in loop order.
RECURSIVE OffsetsSkipFirst(_, _, _)
OffsetsSkipFirst(padded, W, i) ==
    IF i >= Len(padded) THEN <<>>
    ELSE IF i + W < Len(padded) /\ i > 0 THEN <<i>> \o OffsetsSkipFirst(padded, W, i + 1)
         ELSE OffsetsSkipFirst(padded, W, i + 1)
RECURSIVE Offsets(_, _, _)
Offsets(padded, W, i) ==
    IF i >= Len(padded) THEN <<>>
    ELSE IF i + W < Len(padded) THEN <<i>> \o Offsets(padded, W, i + 1)
         ELSE Offsets(padded, W, i + 1)
\* seq[i:i+max_len] and seq[i+max_len] (0-based Python slices).
WindowAtShifted(padded, W, i) == SubSeq(padded, i + 2, i + W + 1)
WindowAt(padded, W, i) == SubSeq(padded, i + 1, i + W)
LabelAt(padded, W, i) == padded[i + W + 1]

\* ----------------------------------------------------------------- state
VARIABLES
    shortjokes,       \* the rows of the Joke column of shortjokes.csv
    all_jokes,        \* all_jokes.Joke
    text, chars,      \* the joined corpus and its distinct characters
    char_labels, labels_char,
    printed,          \* what the contiguity cell prints
    x_data, max_len, input_sequences, labels,
    seqi,             \* the windowing loop's position in x_data (1-based)
    pc,               \* the last notebook cell that ran
    \* one call of generate_seq(model, mapping, seq_length, seed_text, n_chars)
    model, mapping, seq_length, seed_text, n_chars,
    in_text,          \* the growing text
    k,                \* completed passes of the for loop
    encoded,          \* the one-hot window of the current pass
    proba,            \* the probability vector the network gave for it
    yhat,             \* the class predict_classes returned (-1: none yet)
    gpc,              \* "idle", "loop", "returned", "KeyError" or
                      \* "AttributeError"
    \* the whole-sequence training half of the notebook
    input_seq, output_seq,   \* its x_data and y_data, as train receives them
    idxs,             \* the indices of the current mini-batch (0-based)
    batch_data, batch_lens, batch_y,
    tpc,              \* "none", "xy", "padded", train's position ("epoch",
                      \* "batches", "trained") or the exception raised
    first_batch,      \* history: the first padDataBatch call and its result
    \* one call of train(sess, model, num_epochs, input_seq, output_seq)
    num_epochs,
    epoch,            \* train's loop variable k: the passes completed
    all_idxs,
    batch_start,      \* train's loop variable i
    losses,
    sess,             \* the session's variables: global step and weights
    batches_run,      \* history: the idxs of the batches of the current pass
    \* a second run of the notebook on the same shortjokes.csv
    other_run

pvars == <<shortjokes, all_jokes, text, chars, char_labels, labels_char,
           printed, x_data, max_len, input_sequences, labels, seqi, pc>>

gvars == <<model, mapping, seq_length, seed_text, n_chars, in_text, k, encoded,
           proba, yhat, gpc>>

tvars == <<input_seq, output_seq, idxs, batch_data, batch_lens, batch_y, tpc,
           first_batch>>

lvars == <<num_epochs, epoch, all_idxs, batch_start, losses, sess, batches_run>>

rvars == <<other_run>>

vars == <<pvars, gvars, tvars, rvars, lvars>>

\* Strings of exactly n characters.
StrsOver(alphabet, n) == [1..n -> alphabet]

\* Corpora of j rows with at most t characters in total.
RECURSIVE CorporaOf(_, _)
CorporaOf(j, t) ==
    IF j = 0 THEN {<<>>}
    ELSE UNION {{<<s>> \o c : s \in StrsOver(RawAlphabet, n), c \in CorporaOf(j - 1, t - n)} :
                n \in 0..t}

Corpora == UNION {CorporaOf(j, MaxTotal) : j \in 1..MaxJokes}

\* No call of generate_seq has been made.
NoCall ==
    /\ model = [kind |-> "none", cycle |-> <<>>]
    /\ mapping = <<>>
    /\ seq_length = 0
    /\ seed_text = <<>>
    /\ n_chars = 0
    /\ in_text = <<>>
    /\ k = 0
    /\ encoded = <<>>
    /\ proba = <<>>
    /\ yhat = -1
    /\ gpc = "idle"

\* The training half has not run.
NoBatch ==
    /\ input_seq = <<>>
    /\ output_seq = <<>>
    /\ idxs = <<>>
    /\ batch_data = <<>>
    /\ batch_lens = <<>>
    /\ batch_y = <<>>
    /\ tpc = "none"
    /\ first_batch = <<>>

\* train has not been called; the session's variables are as initialised.
NoTrain ==
    /\ num_epochs = 0
    /\ epoch = 0
    /\ all_idxs = <<>>
    /\ batch_start = 0
    /\ losses = <<>>
    /\ sess = [global_step |-> 0, weights |-> 0]
    /\ batches_run = <<>>

\* The second run has read shortjokes.csv and nothing more.
NoOtherRun ==
    other_run = [pc |-> "read", chars |-> <<>>, char_labels |-> <<>>, labels_char |-> <<>>]

\* After all_jokes = pd.read_csv('shortjokes.csv').
Init ==
    /\ shortjokes \in Corpora
    /\ all_jokes = shortjokes
    /\ text = <<>>
    /\ chars = <<>>
    /\ char_labels = <<>>
    /\ labels_char = <<>>
    /\ printed = {}
    /\ x_data = <<>>
    /\ max_len = 0
    /\ input_sequences = <<>>
    /\ labels = <<>>
    /\ seqi = 0
    /\ pc = "read"
    /\ NoCall
    /\ NoBatch
    /\ NoOtherRun
    /\ NoTrain

\* The cleaning cell: removeChars on every row, the joined text, its
\* distinct characters, then the marking of every row.
CleanCell ==
    /\ pc = "read"
    /\ LET cleaned == [i \in 1..Len(all_jokes) |-> removeChars(all_jokes[i])]
       IN /\ text' = join(cleaned)
          /\ chars' \in ListsOf(CharSet(join(cleaned)))
          /\ all_jokes' = [i \in 1..Len(cleaned) |-> mark(cleaned[i])]
    /\ pc' = "cleaned"
    /\ UNCHANGED <<shortjokes, char_labels, labels_char, printed, x_data,
                   max_len, input_sequences, labels, seqi>>
    /\ UNCHANGED <<gvars, tvars, rvars, lvars>>

\* The vocabulary cell.
VocabCell ==
    /\ pc = "cleaned"
    /\ char_labels' = BuildCharLabels(chars)
    /\ labels_char' = BuildLabelsChar(chars)
    /\ pc' = "vocab"
    /\ UNCHANGED <<shortjokes, all_jokes, text, chars, printed, x_data,
                   max_len, input_sequences, labels, seqi>>
    /\ UNCHANGED <<gvars, tvars, rvars, lvars>>

\* sorted(l) for a list of integers: the smallest element first, then the
\* rest sorted.
RECURSIVE sorted(_)
sorted(l) ==
    IF l = <<>> THEN <<>>
    ELSE LET m == CHOOSE i \in 1..Len(l) : \A j \in 1..Len(l) : l[i] <= l[j]
         IN <<l[m]>> \o sorted(SubSeq(l, 1, m - 1) \o SubSeq(l, m + 1, Len(l)))

\* list(d.values())
ValueList(d) == [i \in 1..Len(d) |-> d[i][2]]

\* z = sorted(list(char_labels.values())); print every i with z[i] != i.
ContiguityCell ==
    /\ pc = "vocab"
    /\ LET z == sorted(ValueList(char_labels))
       IN printed' = {i \in 0..(Len(z) - 1) : z[i + 1] # i}
    /\ pc' = "checked"
    /\ UNCHANGED <<shortjokes, all_jokes, text, chars, char_labels, labels_char,
                   x_data, max_len, input_sequences, labels, seqi>>
    /\ UNCHANGED <<gvars, tvars, rvars, lvars>>

\* x_data, max_len and the two empty lists of the windowing cell.  A row
\* with a character that has no code raises KeyError.
XDataCell ==
    /\ pc = "checked"
    /\ IF \A i \in 1..Len(all_jokes) : TryEncode(char_labels, all_jokes[i]).ok
       THEN /\ x_data' = [i \in 1..Len(all_jokes) |-> TryEncode(char_labels, all_jokes[i]).codes]
            /\ max_len' \in 1..MaxW
            /\ seqi' = 1
            /\ pc' = "windowing"
       ELSE /\ pc' = "KeyError"
            /\ UNCHANGED <<x_data, max_len, seqi>>
    /\ input_sequences' = <<>>
    /\ labels' = <<>>
    /\ UNCHANGED <<shortjokes, all_jokes, text, chars, char_labels, labels_char, printed>>
    /\ UNCHANGED <<gvars, tvars, rvars, lvars>>

\* One pass of the outer loop: the windows and labels of x_data[seqi].
RECURSIVE Emit(_, _, _, _)
Emit(padded, W, offs, n) ==
    IF offs = <<>> THEN <<>>
    ELSE <<to_categorical(WindowAt(padded, W, Head(offs)), n)>> \o Emit(padded, W, Tail(offs), n)

\* The same pass when the loop slides over the previous row too.
WindowSeqCarriesOver ==
    /\ pc = "windowing"
    /\ seqi <= Len(x_data)
    /\ LET seq == Padded((IF seqi > 1 THEN x_data[seqi - 1] ELSE <<>>) \o x_data[seqi], max_len)
           offs == Offsets(seq, max_len, 0)
       IN /\ input_sequences' = input_sequences \o Emit(seq, max_len, offs, Len(char_labels))
          /\ labels' = labels \o [j \in 1..Len(offs) |-> LabelAt(seq, max_len, offs[j])]
    /\ seqi' = seqi + 1
    /\ UNCHANGED <<shortjokes, all_jokes, text, chars, char_labels, labels_char,
                   printed, x_data, max_len, pc>>
    /\ UNCHANGED <<gvars, tvars, rvars, lvars>>

WindowSeq ==
    /\ pc = "windowing"
    /\ seqi <= Len(x_data)
    /\ LET seq == Padded(x_data[seqi], max_len)
           offs == Offsets(seq, max_len, 0)
       IN /\ input_sequences' = input_sequences \o Emit(seq, max_len, offs, Len(char_labels))
          /\ labels' = labels \o [j \in 1..Len(offs) |-> LabelAt(seq, max_len, offs[j])]
    /\ seqi' = seqi + 1
    /\ UNCHANGED <<shortjokes, all_jokes, text, chars, char_labels, labels_char,
                   printed, x_data, max_len, pc>>
    /\ UNCHANGED <<gvars, tvars, rvars, lvars>>

\* After the loop: labels = to_categorical(labels, num_classes=len(char_labels)).
WindowDone ==
    /\ pc = "windowing"
    /\ seqi > Len(x_data)
    /\ labels' = to_categorical(labels, Len(char_labels))
    /\ pc' = "done"
    /\ UNCHANGED <<shortjokes, all_jokes, text, chars, char_labels, labels_char,
                   printed, x_data, max_len, input_sequences, seqi>>
    /\ UNCHANGED <<gvars, tvars, rvars, lvars>>

Next ==
    \/ CleanCell
    \/ VocabCell
    \/ ContiguityCell
    \/ XDataCell
    \/ WindowSeq
    \/ WindowDone

Spec == Init /\ [][Next]_vars

\* ------------------------------------------------------------ generate_seq
\* keras pad_sequences([s], maxlen=maxlen, truncating='pre') with the default
\* padding='pre' and value=0: the last maxlen codes, zeros in front.
pad_sequencesKeepsFirst(s, maxlen) ==
    LET trunc == IF Len(s) > maxlen THEN SubSeq(s, 1, maxlen) ELSE s
    IN [j \in 1..(maxlen - Len(trunc)) |-> 0] \o trunc
pad_sequencesPost(s, maxlen) ==
    LET trunc == IF Len(s) > maxlen THEN SubSeq(s, 1, maxlen) ELSE s
    IN trunc \o [j \in 1..(maxlen - Len(trunc)) |-> 0]
pad_sequences(s, maxlen) ==
    LET trunc == IF Len(s) > maxlen THEN SubSeq(s, Len(s) - maxlen + 1, Len(s)) ELSE s
    IN [j \in 1..(maxlen - Len(trunc)) |-> 0] \o trunc

\* The models generate_seq is called with: None, a trained network, or a
\* stub whose predict_classes returns the codes of a fixed cycle, one per
\* call (9 is a class no vocabulary of the model has).
Models ==
    {[kind |-> "none", cycle |-> <<>>],
     [kind |-> "trained", cycle |-> <<>>]}
    \cup {[kind |-> "stub", cycle |-> c] :
             c \in {<<2>>, <<3>>, <<1, 3>>, <<0>>, <<3, 0>>, <<9>>}}

\* The outputs of the network's softmax over n classes, in halves (the
\* entries sum to 2 halves): all of the probability on one class, or a tie
\* between two neighbouring classes.
ProbaVectors(n) ==
    {[j \in 0..(n - 1) |-> IF j = c THEN 2 ELSE 0] : c \in 0..(n - 1)}
    \cup {[j \in 0..(n - 1) |-> IF j \in {c, c + 1} THEN 1 ELSE 0] : c \in 0..(n - 2)}

\* numpy argmax: the first index that holds the maximum.
argmax(p) ==
    CHOOSE c \in DOMAIN p :
        /\ \A j \in DOMAIN p : p[j] <= p[c]
        /\ \A j \in DOMAIN p : j < c => p[j] < p[c]

\* model.predict_classes(encoded) at pass k (0-based): the probability
\* vector of the pass and its argmax for a trained network (one class per
\* key of the mapping), the next code of the cycle for a stub.
predict_classes(m, d, pass) ==
    IF m.kind = "stub"
    THEN {[proba |-> <<>>, yhat |-> m.cycle[(pass % Len(m.cycle)) + 1]]}
    ELSE {[proba |-> p, yhat |-> argmax(p)] : p \in ProbaVectors(Len(d))}

\* model.predict_classes(...) as a call on the model object: AttributeError
\* (ok = FALSE) when the model is None.
TryPredictNoneAsEnd(m, d, pass) ==
    IF m.kind = "none" THEN [ok |-> TRUE, out |-> {[proba |-> <<>>, yhat |-> 2]}]
    ELSE [ok |-> TRUE, out |-> predict_classes(m, d, pass)]
TryPredict(m, d, pass) ==
    IF m.kind = "none" THEN [ok |-> FALSE, out |-> {}]
    ELSE [ok |-> TRUE, out |-> predict_classes(m, d, pass)]

\* for char, index in mapping.items(): if index == yhat: out_char = char; break
LoopCharNoBreak(d, cls) == d[Len(d)][1]
\* The value of the loop variable char after the loop: the first key whose
\* value is yhat, or the last key of the dict when there is none.
LoopChar(d, cls) ==
    IF \E i \in 1..Len(d) : d[i][2] = cls
    THEN d[CHOOSE i \in 1..Len(d) :
               d[i][2] = cls /\ \A j \in 1..(i - 1) : d[j][2] # cls][1]
    ELSE d[Len(d)][1]

\* The characters of a key as a Python string.
KeyChars(key) == IF key = "PAD" THEN <<"P", "A", "D">> ELSE <<key>>

\* The corpora the vocabulary of the generation runs is built from.
GenCorpora == {<< <<"a">> >>, << <<"a", "b">> >>}

Seeds == UNION {StrsOver(SeedAlphabet, n) : n \in 0..MaxSeed}

\* The notebook after its vocabulary cell, for a corpus of GenCorpora.
InitGen ==
    /\ shortjokes \in GenCorpora
    /\ LET cleaned == [i \in 1..Len(shortjokes) |-> removeChars(shortjokes[i])]
       IN /\ text = join(cleaned)
          /\ chars \in ListsOf(CharSet(join(cleaned)))
          /\ all_jokes = [i \in 1..Len(cleaned) |-> mark(cleaned[i])]
    /\ char_labels = BuildCharLabels(chars)
    /\ labels_char = BuildLabelsChar(chars)
    /\ printed = {}
    /\ x_data = <<>>
    /\ max_len = 0
    /\ input_sequences = <<>>
    /\ labels = <<>>
    /\ seqi = 0
    /\ pc = "vocab"
    /\ NoCall
    /\ NoBatch
    /\ NoOtherRun
    /\ NoTrain

\* The call, were it to give the first seed character that has no code the
\* next free code in the mapping it was handed.
GenCallRegistersSeed ==
    /\ gpc = "idle"
    /\ model' \in Models
    /\ seq_length' \in 1..MaxW
    /\ seed_text' \in Seeds
    /\ n_chars' \in 0..MaxChars
    /\ LET unknown == {i \in 1..Len(seed_text') : ~HasKey(char_labels, seed_text'[i])}
       IN char_labels' =
              IF unknown = {} THEN char_labels
              ELSE DictSet(char_labels,
                           seed_text'[CHOOSE i \in unknown : \A j \in unknown : i <= j],
                           Len(char_labels))
    /\ mapping' = char_labels'
    /\ in_text' = seed_text'
    /\ k' = 0
    /\ encoded' = <<>>
    /\ proba' = <<>>
    /\ yhat' = -1
    /\ gpc' = "loop"
    /\ UNCHANGED <<shortjokes, all_jokes, text, chars, labels_char, printed, x_data,
                   max_len, input_sequences, labels, seqi, pc>>
    /\ UNCHANGED <<tvars, rvars, lvars>>

\* generate_seq(model, char_labels, seq_length, seed_text, n_chars) is
\* called: in_text = seed_text.  Every local of the call is set here, so a
\* call made after another one has returned or failed starts as this one.
GenCall ==
    /\ gpc = "idle"
    /\ model' \in Models
    /\ mapping' = char_labels
    /\ seq_length' \in 1..MaxW
    /\ seed_text' \in Seeds
    /\ n_chars' \in 0..MaxChars
    /\ in_text' = seed_text'
    /\ k' = 0
    /\ encoded' = <<>>
    /\ proba' = <<>>
    /\ yhat' = -1
    /\ gpc' = "loop"
    /\ UNCHANGED <<pvars, tvars, rvars, lvars>>

\* One pass of for _ in range(n_chars), with a break once '^' is appended.
GenStepStopsAtEnd ==
    /\ gpc = "loop"
    /\ k < n_chars
    /\ LET enc == TryEncode(mapping, in_text)
       IN IF ~enc.ok
          THEN /\ gpc' = "KeyError"
               /\ UNCHANGED <<in_text, k, encoded, proba, yhat>>
          ELSE /\ encoded' = to_categorical(pad_sequences(enc.codes, seq_length), Len(mapping))
               /\ IF ~TryPredict(model, mapping, k).ok
                  THEN /\ gpc' = "AttributeError"
                       /\ UNCHANGED <<in_text, k, proba, yhat>>
                  ELSE /\ \E r \in TryPredict(model, mapping, k).out :
                             /\ proba' = r.proba
                             /\ yhat' = r.yhat
                             /\ in_text' = in_text \o KeyChars(LoopChar(mapping, r.yhat))
                             /\ gpc' = IF LoopChar(mapping, r.yhat) = "^"
                                       THEN "returned" ELSE "loop"
                       /\ k' = k + 1
    /\ UNCHANGED <<model, mapping, seq_length, seed_text, n_chars>>
    /\ UNCHANGED <<pvars, tvars, rvars, lvars>>

\* One pass of for _ in range(n_chars): encode in_text (KeyError ends the
\* call), pad or truncate to seq_length, one-hot, predict (AttributeError
\* when the model is None), look the class up in the mapping and append the
\* loop variable char.
GenStep ==
    /\ gpc = "loop"
    /\ k < n_chars
    /\ LET enc == TryEncode(mapping, in_text)
       IN IF ~enc.ok
          THEN /\ gpc' = "KeyError"
               /\ UNCHANGED <<in_text, k, encoded, proba, yhat>>
          ELSE /\ encoded' = to_categorical(pad_sequences(enc.codes, seq_length), Len(mapping))
               /\ IF ~TryPredict(model, mapping, k).ok
                  THEN /\ gpc' = "AttributeError"
                       /\ UNCHANGED <<in_text, k, proba, yhat>>
                  ELSE /\ \E r \in TryPredict(model, mapping, k).out :
                             /\ proba' = r.proba
                             /\ yhat' = r.yhat
                             /\ in_text' = in_text \o KeyChars(LoopChar(mapping, r.yhat))
                             /\ gpc' = "loop"
                       /\ k' = k + 1
    /\ UNCHANGED <<model, mapping, seq_length, seed_text, n_chars>>
    /\ UNCHANGED <<pvars, tvars, rvars, lvars>>

\* The return, were it to hand back the generated characters alone.
GenReturnGeneratedOnly ==
    /\ gpc = "loop"
    /\ k = n_chars
    /\ in_text' = SubSeq(in_text, Len(seed_text) + 1, Len(in_text))
    /\ gpc' = "returned"
    /\ UNCHANGED <<model, mapping, seq_length, seed_text, n_chars, k, encoded,
                   proba, yhat>>
    /\ UNCHANGED <<pvars, tvars, rvars, lvars>>

\* return in_text
GenReturn ==
    /\ gpc = "loop"
    /\ k = n_chars
    /\ gpc' = "returned"
    /\ UNCHANGED <<model, mapping, seq_length, seed_text, n_chars, in_text, k, encoded,
                   proba, yhat>>
    /\ UNCHANGED <<pvars, tvars, rvars, lvars>>

\* The call is over: its result or its exception is with the caller and
\* its locals are gone.
GenExit ==
    /\ gpc \in {"returned", "KeyError", "AttributeError"}
    /\ model' = [kind |-> "none", cycle |-> <<>>]
    /\ mapping' = <<>>
    /\ seq_length' = 0
    /\ seed_text' = <<>>
    /\ n_chars' = 0
    /\ in_text' = <<>>
    /\ k' = 0
    /\ encoded' = <<>>
    /\ proba' = <<>>
    /\ yhat' = -1
    /\ gpc' = "idle"
    /\ UNCHANGED <<pvars, tvars, rvars, lvars>>

NextGen ==
    \/ GenCall
    \/ GenStep
    \/ GenReturn
    \/ GenExit

SpecGen == InitGen /\ [][NextGen]_vars

\* ---------------------------------------------------------------------
\* The notebook from the vocabulary on: the windowing cells, then the cell
\* that calls generate_seq with the window width of the training windows.

GenerateCell ==
    /\ pc = "done"
    /\ GenCall
    /\ seq_length' = max_len

NextNotebook ==
    \/ ContiguityCell
    \/ XDataCell
    \/ WindowSeq
    \/ WindowDone
    \/ GenerateCell
    \/ GenStep
    \/ GenReturn
    \/ GenExit

SpecNotebook == InitGen /\ [][NextNotebook]_vars

\* ---------------------------------------------------------------------
\* The whole-sequence training half: x_data / y_data and padDataBatch.

\* The number of classes padDataBatch passes to to_categorical.
NumClasses == 97

\* z[:-1] and z[1:]
AllButLast(z) == SubSeq(z, 1, Len(z) - 1)
AllButFirstTwo(z) == SubSeq(z, 3, Len(z))
AllButFirst(z) == SubSeq(z, 2, Len(z))

\* a[idxs] for a list of 0-based indices.
Take(a, idx) == [i \in 1..Len(idx) |-> a[idx[i] + 1]]

\* max(l) of a non-empty list of integers.
max(l) == CHOOSE m \in {l[i] : i \in 1..Len(l)} : \A i \in 1..Len(l) : l[i] <= m

\* np.pad(utter, (0, after), mode='constant'): after zeros behind utter.
np_padBefore(utter, after) == [j \in 1..after |-> 0] \o utter
np_pad(utter, after) == utter \o [j \in 1..after |-> 0]

\* padDataBatch(data, labels).  max() of an empty list and a negative pad
\* width raise ValueError; to_categorical, whose result is dropped, raises
\* IndexError on a code that is no class.
padDataBatchKeepsWidth(data, labs) ==
    LET seq_lengths == [i \in 1..Len(data) |-> Len(data[i])]
        leftover == IF batch_data = <<>> THEN 0 ELSE Len(batch_data[1])
        maxlen == IF data # <<>> /\ max(seq_lengths) > leftover
                  THEN max(seq_lengths) ELSE leftover
    IN [raised |-> "",
        x |-> [i \in 1..Len(data) |-> np_pad(data[i], maxlen - Len(data[i]))],
        lens |-> seq_lengths,
        y |-> [i \in 1..Len(labs) |-> np_pad(labs[i], maxlen - Len(labs[i]))]]
padDataBatch(data, labs) ==
    LET seq_lengths == [i \in 1..Len(data) |-> Len(data[i])]
    IN IF data = <<>> \/ \E i \in 1..Len(labs) : max(seq_lengths) < Len(labs[i])
       THEN [raised |-> "ValueError", x |-> <<>>, lens |-> <<>>, y |-> <<>>]
       ELSE LET maxlen == max(seq_lengths)
                xs == [i \in 1..Len(data) |-> np_pad(data[i], maxlen - Len(data[i]))]
                ys == [i \in 1..Len(labs) |-> np_pad(labs[i], maxlen - Len(labs[i]))]
            IN IF \E i \in 1..Len(xs) : \E j \in 1..Len(xs[i]) : xs[i][j] >= NumClasses
               THEN [raised |-> "IndexError", x |-> <<>>, lens |-> <<>>, y |-> <<>>]
               ELSE [raised |-> "", x |-> xs, lens |-> seq_lengths, y |-> ys]

\* The mini-batches train can cut out of n examples: a run of distinct
\* example indices, at least one.
Batches(n) ==
    UNION {ListsOf(S) : S \in (SUBSET (0..(n - 1))) \ {{}}}

\* x_data and y_data of the training half: the codes of every marked row
\* without its last and without its first character.
XYDataCell ==
    /\ pc = "checked"
    /\ tpc = "none"
    /\ IF \A i \in 1..Len(all_jokes) : TryEncode(char_labels, all_jokes[i]).ok
       THEN /\ input_seq' = [i \in 1..Len(all_jokes) |->
                                TryEncode(char_labels, AllButLast(all_jokes[i])).codes]
            /\ output_seq' = [i \in 1..Len(all_jokes) |->
                                TryEncode(char_labels, AllButFirst(all_jokes[i])).codes]
            /\ tpc' = "xy"
       ELSE /\ tpc' = "KeyError"
            /\ UNCHANGED <<input_seq, output_seq>>
    /\ UNCHANGED <<idxs, batch_data, batch_lens, batch_y, first_batch>>
    /\ UNCHANGED <<pvars, gvars, rvars, lvars>>

\* One mini-batch of train: idxs is cut out of the shuffled indices and
\* batch_data, batch_lens, batch_y = padDataBatch(input_seq[idxs],
\* output_seq[idxs]).
PadDataBatchCall ==
    /\ tpc \in {"xy", "padded"}
    /\ \E b \in Batches(Len(input_seq)) :
          LET r == padDataBatch(Take(input_seq, b), Take(output_seq, b))
          IN /\ idxs' = b
             /\ IF r.raised = ""
                THEN /\ batch_data' = r.x
                     /\ batch_lens' = r.lens
                     /\ batch_y' = r.y
                     /\ tpc' = "padded"
                ELSE /\ tpc' = r.raised
                     /\ UNCHANGED <<batch_data, batch_lens, batch_y>>
             /\ first_batch' =
                    IF first_batch = <<>> /\ r.raised = ""
                    THEN <<[data |-> Take(input_seq, b), labs |-> Take(output_seq, b),
                            x |-> r.x, lens |-> r.lens, y |-> r.y]>>
                    ELSE first_batch
    /\ UNCHANGED <<input_seq, output_seq>>
    /\ UNCHANGED <<pvars, gvars, rvars, lvars>>

NextBatch ==
    \/ CleanCell
    \/ VocabCell
    \/ ContiguityCell
    \/ XYDataCell
    \/ PadDataBatchCall

\* The batches are cut from corpora of rows of the letter a: the rows'
\* lengths are what padDataBatch works on, and what the cleaning cell
\* removes plays no part in it.
TrainCorpora ==
    {c \in Corpora : \A i \in 1..Len(c) : \A j \in 1..Len(c[i]) : c[i][j] = "a"}

InitBatch == Init /\ shortjokes \in TrainCorpora

SpecBatch == InitBatch /\ [][NextBatch]_vars

\* ---------------------------------------------------------------------
\* train(sess, model, num_epochs, input_seq, output_seq)

\* a[i:i+n] for a list a and a 0-based start i.
SliceOneMore(a, i, n) ==
    SubSeq(a, i + 1, IF i + n + 1 < Len(a) THEN i + n + 1 ELSE Len(a))
Slice(a, i, n) == SubSeq(a, i + 1, IF i + n < Len(a) THEN i + n ELSE Len(a))

\* np.arange(n)
arange(n) == [j \in 1..n |-> j - 1]

\* What train asks the session to evaluate for a batch.
FetchesWithTrainStep == <<"loss", "train_step">>
Fetches == <<"loss">>

\* sess.run(fetches, feed_dict): the session's variables afterwards and the
\* list of results, one per fetch (a result is named after its fetch).
\* Only train_step, the optimizer's minimize op, writes variables: it
\* updates the weights and increments the global step.
sess_run(s, fetches) ==
    [sess |-> IF \E j \in 1..Len(fetches) : fetches[j] = "train_step"
              THEN [global_step |-> s.global_step + 1, weights |-> s.weights + 1]
              ELSE s,
     out |-> fetches]

\* train is called: batch_size, data_size and all_idxs = np.arange(data_size).
TrainCall ==
    /\ tpc = "xy"
    /\ num_epochs' \in 0..MaxEpochs
    /\ all_idxs' = arange(Len(input_seq))
    /\ epoch' = 0
    /\ batch_start' = 0
    /\ losses' = <<>>
    /\ batches_run' = <<>>
    /\ tpc' = "epoch"
    /\ UNCHANGED <<input_seq, output_seq, idxs, batch_data, batch_lens, batch_y,
                   first_batch, sess>>
    /\ UNCHANGED <<pvars, gvars, rvars>>

\* The head of a pass: np.random.shuffle(all_idxs), i = 0, losses = [].
EpochStart ==
    /\ tpc = "epoch"
    /\ epoch < num_epochs
    /\ all_idxs' \in ListsOf({all_idxs[j] : j \in 1..Len(all_idxs)})
    /\ batch_start' = 0
    /\ losses' = <<>>
    /\ batches_run' = <<>>
    /\ tpc' = "batches"
    /\ UNCHANGED <<input_seq, output_seq, idxs, batch_data, batch_lens, batch_y,
                   first_batch, num_epochs, epoch, sess>>
    /\ UNCHANGED <<pvars, gvars, rvars>>

\* One turn of for i in range(0, len(all_idxs), batch_size): the slice of
\* indices, padDataBatch, sess.run of the loss, losses.append(loss).
BatchStep ==
    /\ tpc = "batches"
    /\ batch_start < Len(all_idxs)
    /\ LET b == Slice(all_idxs, batch_start, batch_size)
           r == padDataBatch(Take(input_seq, b), Take(output_seq, b))
           ran == sess_run(sess, Fetches)
       IN /\ idxs' = b
          /\ IF r.raised = ""
             THEN /\ batch_data' = r.x
                  /\ batch_lens' = r.lens
                  /\ batch_y' = r.y
                  /\ sess' = ran.sess
                  /\ losses' = Append(losses, ran.out)
                  /\ batches_run' = Append(batches_run, b)
                  /\ batch_start' = batch_start + batch_size
                  /\ tpc' = "batches"
             ELSE /\ tpc' = r.raised
                  /\ UNCHANGED <<batch_data, batch_lens, batch_y, sess, losses,
                                 batches_run, batch_start>>
    /\ UNCHANGED <<input_seq, output_seq, first_batch, num_epochs, epoch, all_idxs>>
    /\ UNCHANGED <<pvars, gvars, rvars>>

\* The end of a pass: print(np.mean(losses)).
EpochEnd ==
    /\ tpc = "batches"
    /\ batch_start >= Len(all_idxs)
    /\ epoch' = epoch + 1
    /\ tpc' = "epoch"
    /\ UNCHANGED <<input_seq, output_seq, idxs, batch_data, batch_lens, batch_y,
                   first_batch, num_epochs, all_idxs, batch_start, losses, sess,
                   batches_run>>
    /\ UNCHANGED <<pvars, gvars, rvars>>

\* train returns after num_epochs passes.
TrainReturn ==
    /\ tpc = "epoch"
    /\ epoch = num_epochs
    /\ tpc' = "trained"
    /\ UNCHANGED <<input_seq, output_seq, idxs, batch_data, batch_lens, batch_y,
                   first_batch>>
    /\ UNCHANGED <<pvars, gvars, rvars, lvars>>

NextTrain ==
    \/ CleanCell
    \/ VocabCell
    \/ ContiguityCell
    \/ XYDataCell
    \/ TrainCall
    \/ EpochStart
    \/ BatchStep
    \/ EpochEnd
    \/ TrainReturn

\* The corpora train is run on: up to MaxExamples rows of the letter a, at
\* most MaxTotal characters in all.
RECURSIVE TotalLen(_)
TotalLen(c) == IF c = <<>> THEN 0 ELSE Len(Head(c)) + TotalLen(Tail(c))

TrainingSets ==
    {c \in UNION {[1..n -> UNION {StrsOver({"a"}, m) : m \in 0..MaxTotal}] :
                     n \in 1..MaxExamples} :
        TotalLen(c) <= MaxTotal}

InitTrain ==
    /\ shortjokes \in TrainingSets
    /\ all_jokes = shortjokes
    /\ text = <<>>
    /\ chars = <<>>
    /\ char_labels = <<>>
    /\ labels_char = <<>>
    /\ printed = {}
    /\ x_data = <<>>
    /\ max_len = 0
    /\ input_sequences = <<>>
    /\ labels = <<>>
    /\ seqi = 0
    /\ pc = "read"
    /\ NoCall
    /\ NoBatch
    /\ NoOtherRun
    /\ NoTrain

SpecTrain == InitTrain /\ [][NextTrain]_vars

\* ---------------------------------------------------------------------
\* A second run of the notebook on the same shortjokes.csv, in a process
\* of its own: its cleaning cell and its vocabulary cell.

OtherCleanCell ==
    /\ other_run.pc = "read"
    /\ LET cleaned == [i \in 1..Len(shortjokes) |-> removeChars(shortjokes[i])]
       IN \E c \in ListsOf(CharSet(join(cleaned))) :
             other_run' = [other_run EXCEPT !.pc = "cleaned", !.chars = c]
    /\ UNCHANGED <<pvars, gvars, tvars, lvars>>

OtherVocabCell ==
    /\ other_run.pc = "cleaned"
    /\ other_run' = [other_run EXCEPT !.pc = "vocab",
                                      !.char_labels = BuildCharLabels(other_run.chars),
                                      !.labels_char = BuildLabelsChar(other_run.chars)]
    /\ UNCHANGED <<pvars, gvars, tvars, lvars>>

NextRuns ==
    \/ CleanCell
    \/ VocabCell
    \/ OtherCleanCell
    \/ OtherVocabCell

SpecRuns == Init /\ [][NextRuns]_vars

\* ------------------------------------------------------------- properties
\* The stub of the spec's test: probability 1 on the End sentinel.
EndStub == [kind |-> "stub", cycle |-> <<2>>]

\* The characters generate_seq has appended to the seed so far.
Appended == SubSeq(in_text, Len(seed_text) + 1, Len(in_text))

\* C1 as amended: generate_seq never stops at the End sentinel.  It returns
\* only after exactly n_chars passes, and with the stub that always selects
\* the End sentinel every pass appends one '^', so that n_chars of them are
\* appended (exactly one when n_chars = 1).
C1_FixedNumberOfPasses ==
    /\ gpc = "returned" => k = n_chars
    /\ (gpc \in {"loop", "returned"} /\ model = EndStub)
          => in_text = seed_text \o [i \in 1..k |-> "^"]

C1_Witness ==
    /\ gpc = "returned"
    /\ model = EndStub
    /\ n_chars = 2
    /\ Appended = <<"^", "^">>

\* C1 as stated: once the loop has appended an End sentinel nothing is
\* appended after it, and the End stub appends exactly one character.
C1_StopsAtEndSentinel ==
    /\ \A i \in 1..(Len(Appended) - 1) : Appended[i] # "^"
    /\ (gpc = "returned" /\ model = EndStub /\ n_chars >= 1) => Appended = <<"^">>

\* The cleaned text of Example i: the marked row without its two sentinels.
CleanedOf(i) == SubSeq(all_jokes[i], 2, Len(all_jokes[i]) - 1)

\* The labels emitted so far as codes (one-hot once the cell has finished).
LabelCodes == IF pc = "done" THEN CodesOf(labels) ELSE labels

\* The number of pairs of the first n Examples when Example i gives
\* Len(cleaned text) + extra of them.
RECURSIVE PairsThrough(_, _)
PairsThrough(n, extra) ==
    IF n = 0 THEN 0 ELSE PairsThrough(n - 1, extra) + Len(CleanedOf(n)) + extra

\* C2 as amended: windowing one Example whose cleaned text has length L
\* yields exactly L + 3 (window, label) pairs, for every L >= 0 and W >= 1,
\* the last label being the End sentinel.
C2_PairsPerExample ==
    pc \in {"windowing", "done"} =>
        /\ Len(input_sequences) = PairsThrough(seqi - 1, 3)
        /\ Len(labels) = PairsThrough(seqi - 1, 3)
        /\ \A n \in 1..(seqi - 1) : LabelCodes[PairsThrough(n, 3)] = 2

C2_Witness ==
    /\ pc = "done"
    /\ Len(x_data) = 2
    /\ Len(CleanedOf(1)) = 0
    /\ Len(CleanedOf(2)) = 2
    /\ Len(labels) = 8

\* C2 as stated: L + 1 pairs per Example.
C2_LPlusOnePairs ==
    pc \in {"windowing", "done"} =>
        /\ Len(input_sequences) = PairsThrough(seqi - 1, 1)
        /\ Len(labels) = PairsThrough(seqi - 1, 1)

\* The labels of the Examples windowed so far when they are exactly the
\* marked code sequences, one after the other.
RECURSIVE MarkedCodesThrough(_)
MarkedCodesThrough(n) ==
    IF n = 0 THEN <<>> ELSE MarkedCodesThrough(n - 1) \o x_data[n]

\* C3: the labels emitted for an Example, in emission order, are exactly its
\* marked code sequence (START, the text codes, END).
C3_LabelsAreMarkedSequence ==
    pc \in {"windowing", "done"} => LabelCodes = MarkedCodesThrough(seqi - 1)

\* The windows of the n-th Example windowed, as codes.
WindowsOf(n) ==
    [j \in 1..(Len(CleanedOf(n)) + 3) |->
        CodesOf(input_sequences[PairsThrough(n - 1, 3) + j])]
LabelsOf(n) ==
    [j \in 1..(Len(CleanedOf(n)) + 3) |-> LabelCodes[PairsThrough(n - 1, 3) + j]]
Starts(n) == [j \in 1..n |-> 1]

\* C4 as amended: an empty Example yields exactly three pairs: W Start codes
\* with label Start, W Start codes with label End, and W - 1 Start codes
\* followed by End with label End.
C4_EmptyExample ==
    pc \in {"windowing", "done"} =>
        \A n \in 1..(seqi - 1) :
            CleanedOf(n) = <<>> =>
                /\ WindowsOf(n) = <<Starts(max_len), Starts(max_len),
                                    Starts(max_len - 1) \o <<2>> >>
                /\ LabelsOf(n) = <<1, 2, 2>>

C4_Witness ==
    /\ pc = "done"
    /\ Len(x_data) = 2
    /\ CleanedOf(2) = <<>>
    /\ shortjokes[2] = <<"~", "^">>
    /\ max_len = 2

\* C4 as stated: an empty Example yields exactly one pair, W Start codes
\* with label End.
C4_OnePairForEmpty ==
    (pc \in {"windowing", "done"} /\ seqi = 2 /\ CleanedOf(1) = <<>>) =>
        /\ Len(input_sequences) = 1
        /\ CodesOf(input_sequences[1]) = Starts(max_len)
        /\ LabelCodes = <<2>>

\* C5: the window of a pass has exactly seq_length codes: the last
\* seq_length codes of the encoded text when it has more, the codes after
\* seq_length - len zeros when it has fewer, the codes themselves when it
\* has exactly seq_length.
C5_FixedLengthWindow ==
    [][(gpc = "loop" /\ k' = k + 1) =>
          LET c == Encode(mapping, in_text)
              w == CodesOf(encoded')
              n == Len(c)
          IN /\ Len(w) = seq_length
             /\ n > seq_length =>
                   \A j \in 1..seq_length : w[j] = c[n - seq_length + j]
             /\ n < seq_length =>
                   /\ \A j \in 1..(seq_length - n) : w[j] = 0
                   /\ \A j \in 1..n : w[seq_length - n + j] = c[j]
             /\ n = seq_length => w = c]_vars

C5_Witness ==
    /\ gpc = "returned"
    /\ seq_length = 2
    /\ seed_text = <<"a", "b">>
    /\ k = 2
    /\ HasKey(mapping, "b")
    /\ CodesOf(encoded) = <<DictGet(mapping, "b"), 2>>

\* The vocabulary cell has run.
VocabBuilt == pc \in {"vocab", "checked", "windowing", "done"}

\* The positions of a dict that hold a given key.
EntriesOf(d, key) == {i \in 1..Len(d) : d[i][1] = key}

\* C6: the vocabulary is a bijection: decode(encode(c)) = c for every key c
\* of char_labels, encode(decode(n)) = n for every key n of labels_char, and
\* no two keys of char_labels share a code.
C6_VocabularyBijection ==
    VocabBuilt =>
        /\ \A c \in Keys(char_labels) :
              /\ HasKey(labels_char, DictGet(char_labels, c))
              /\ DictGet(labels_char, DictGet(char_labels, c)) = c
        /\ \A n \in Keys(labels_char) :
              /\ HasKey(char_labels, DictGet(labels_char, n))
              /\ DictGet(char_labels, DictGet(labels_char, n)) = n
        /\ \A i, j \in 1..Len(char_labels) :
              char_labels[i][2] = char_labels[j][2] => i = j

C6_Witness ==
    /\ pc = "vocab"
    /\ shortjokes = << <<"~">>, <<"a">> >>
    /\ Keys(char_labels) = {"a", "\n", "PAD", "~", "^"}
    /\ Keys(labels_char) = 0..4

\* The distinct characters of the cleaned texts of the Examples.
ExampleChars == UNION {CharSet(CleanedOf(i)) : i \in 1..Len(all_jokes)}

\* C7 as amended: the size of the vocabulary is 3 plus the number of
\* distinct characters of the newline-joined cleaned corpus: the characters
\* of the cleaned Examples, and the newline that joins them when the corpus
\* has two or more Examples.
C7_VocabularySize ==
    VocabBuilt =>
        Len(char_labels) =
            3 + Cardinality(ExampleChars \cup (IF Len(all_jokes) >= 2 THEN {"\n"} ELSE {}))

C7_Witness ==
    /\ pc = "vocab"
    /\ shortjokes = << <<"a">>, <<"b">> >>
    /\ Len(char_labels) = 6

\* C7 as stated: 3 plus the number of distinct characters of the cleaned
\* Examples themselves.
C7_SizeCountsExampleCharsOnly ==
    VocabBuilt => Len(char_labels) = 3 + Cardinality(ExampleChars)

\* C8: the codes are exactly [0, size) without gap or duplicate, PAD is 0,
\* '~' is 1, '^' is 2, every character of the cleaned corpus has exactly one
\* code and it is >= 3; the contiguity cell prints nothing.
C8_ContiguousCodes ==
    VocabBuilt =>
        /\ Values(char_labels) = 0..(Len(char_labels) - 1)
        /\ \A i, j \in 1..Len(char_labels) :
              char_labels[i][2] = char_labels[j][2] => i = j
        /\ HasKey(char_labels, "PAD") /\ DictGet(char_labels, "PAD") = 0
        /\ HasKey(char_labels, "~") /\ DictGet(char_labels, "~") = 1
        /\ HasKey(char_labels, "^") /\ DictGet(char_labels, "^") = 2
        /\ \A c \in CharSet(text) :
              /\ Cardinality(EntriesOf(char_labels, c)) = 1
              /\ DictGet(char_labels, c) >= 3
        /\ pc # "vocab" => printed = {}

C8_Witness ==
    /\ pc = "checked"
    /\ CharSet(text) = {"a", "\n"}
    /\ Values(char_labels) = 0..4

\* C9: every row, cleaned then marked, starts with '~', ends with '^' and
\* has no other '~' or '^', no \x08 and no \x10.
C9_CleanedAndMarked ==
    pc # "read" =>
        /\ Len(all_jokes) = Len(shortjokes)
        /\ \A i \in 1..Len(all_jokes) :
              LET z == all_jokes[i]
              IN /\ Len(z) >= 2
                 /\ z[1] = "~"
                 /\ z[Len(z)] = "^"
                 /\ \A j \in 2..(Len(z) - 1) : z[j] \notin {"~", "^", "x08", "x10"}

C9_Witness ==
    /\ pc = "cleaned"
    /\ shortjokes = << <<"^", "^">> >>
    /\ all_jokes = << <<"~", "^">> >>

\* C10 as amended: generate_seq called with n_chars >= 1 and a seed text
\* that has a character absent from the mapping fails with KeyError in its
\* first pass: it never returns, and nothing is dropped from or appended to
\* the text.  A KeyError is only ever raised for a text with such a
\* character.
C10_UnknownSeedCharacter ==
    /\ (gpc # "idle" /\ n_chars >= 1 /\ ~Encodable(mapping, seed_text))
          => /\ gpc \in {"loop", "KeyError"}
             /\ k = 0
             /\ in_text = seed_text
    /\ gpc = "KeyError" => ~Encodable(mapping, in_text)

C10_Witness ==
    /\ gpc = "KeyError"
    /\ seed_text = <<"a", "b">>
    /\ ~HasKey(mapping, "b")
    /\ n_chars = 1

\* C10 as stated: a call whose seed text has a character absent from the
\* mapping never returns a string.
C10_UnknownSeedNeverReturns ==
    (gpc = "returned") => Encodable(mapping, seed_text)

\* A pass of the loop has just run to its end.
PassDone == gpc = "loop" /\ k' = k + 1

\* C11: when the class the model selects is no code of the vocabulary the
\* call fails: nothing is appended for that class and nothing is returned.
C11_UnknownCodeFails ==
    (gpc # "idle" /\ yhat # -1 /\ yhat \notin Values(mapping))
        => /\ gpc \notin {"loop", "returned"}
           /\ Appended = <<>>

\* C12 as amended: generate_seq called with model None and n_chars >= 1
\* never returns a string: its first pass fails, with AttributeError when
\* the model is queried, or with KeyError before that when the seed text
\* has a character absent from the mapping, and nothing is appended.  With
\* n_chars = 0 the model is never touched and the seed text is returned.
C12_NoModel ==
    /\ (gpc # "idle" /\ model.kind = "none" /\ n_chars >= 1)
          => /\ gpc \in {"loop", "KeyError", "AttributeError"}
             /\ k = 0
             /\ in_text = seed_text
    /\ gpc = "AttributeError"
          => model.kind = "none" /\ n_chars >= 1 /\ Encodable(mapping, seed_text)
    /\ (gpc = "returned" /\ model.kind = "none") => n_chars = 0 /\ in_text = seed_text

C12_Witness ==
    /\ gpc = "AttributeError"
    /\ seed_text = <<"a">>
    /\ n_chars = 2
    /\ CodesOf(encoded) = <<0, 3>>

\* C12 as stated: a call with model None never returns a string, whatever
\* n_chars is.
C12_NoModelNeverReturns == ~(gpc = "returned" /\ model.kind = "none")

\* C13: every pass appends exactly one character: after k passes the text
\* has len(seed_text) + k characters, at most n_chars passes run and the
\* returned text has at most len(seed_text) + n_chars characters.
C13_OneCharacterPerPass ==
    gpc \in {"loop", "returned"} =>
        /\ k <= n_chars
        /\ Len(in_text) = Len(seed_text) + k

\* The decoded characters of the first n codes of a stub's cycle.
RECURSIVE CycleText(_, _)
CycleText(m, n) ==
    IF n = 0 THEN <<>>
    ELSE CycleText(m, n - 1) \o
         KeyChars(DictGet(labels_char, m.cycle[((n - 1) % Len(m.cycle)) + 1]))

\* C14: with a stub that cycles through codes of the vocabulary, none of
\* them End, the call returns seed_text followed by the decoded characters
\* of the cycle, n_chars characters in all.
C14_StubCycleReproduced ==
    (/\ gpc = "returned"
     /\ model.kind = "stub"
     /\ \A i \in 1..Len(model.cycle) : model.cycle[i] \in Values(mapping) \ {2})
        => /\ Appended = CycleText(model, n_chars)
           /\ Len(Appended) = n_chars

\* C15: the class of a pass is an argmax of the network's probability
\* vector for the window (no class has a strictly higher probability), and
\* what the pass appends is labels_char's decoding of exactly that class.
C15_GreedyDecoding ==
    [][PassDone =>
          /\ model.kind = "trained" =>
                /\ yhat' \in DOMAIN proba'
                /\ DOMAIN proba' = 0..(Len(mapping) - 1)
                /\ \A c \in DOMAIN proba' : proba'[c] <= proba'[yhat']
          /\ HasKey(labels_char, yhat') =>
                in_text' = in_text \o KeyChars(DictGet(labels_char, yhat'))]_vars

C15_Witness ==
    /\ gpc = "returned"
    /\ model.kind = "trained"
    /\ k = 2
    /\ yhat = 3
    /\ proba[3] = 1
    /\ proba[4] = 1
    /\ in_text = <<"b", "^", DictGet(labels_char, 3)>>

\* The padded code sequence of the n-th Example and the number of pairs the
\* first n Examples emit (one per offset that fits).
PaddedOf(n) == Padded(x_data[n], max_len)
RECURSIVE EmittedThrough(_)
EmittedThrough(n) ==
    IF n = 0 THEN 0 ELSE EmittedThrough(n - 1) + (Len(PaddedOf(n)) - max_len)

\* C16: every (window, label) pair is drawn from exactly one Example: the
\* window followed by its label is a contiguous slice of the padded code
\* sequence of the Example the pair was emitted for.
C16_PairsFromOneExample ==
    pc \in {"windowing", "done"} =>
        /\ Len(input_sequences) = Len(labels)
        /\ \A p \in 1..Len(input_sequences) :
              \E n \in 1..(seqi - 1) :
                  /\ EmittedThrough(n - 1) < p
                  /\ p <= EmittedThrough(n)
                  /\ \E i \in 0..(Len(PaddedOf(n)) - max_len - 1) :
                        CodesOf(input_sequences[p]) \o <<LabelCodes[p]>> =
                            SubSeq(PaddedOf(n), i + 1, i + max_len + 1)

C16_Witness ==
    /\ pc = "done"
    /\ Len(x_data) = 2
    /\ x_data[1] # x_data[2]
    /\ Len(x_data[1]) = 3
    /\ Len(x_data[2]) = 3
    /\ max_len = 2

\* C20: for every offset i >= 0 with i + W < len(padded sequence), and for
\* no other, the pair (padded[i:i+W], padded[i+W]) is emitted, in increasing
\* order of i; every window has exactly W codes, every index is in bounds
\* and every Example yields at least one pair.
C20_SlidingWindow ==
    pc \in {"windowing", "done"} =>
        /\ Len(input_sequences) = EmittedThrough(seqi - 1)
        /\ Len(labels) = EmittedThrough(seqi - 1)
        /\ \A n \in 1..(seqi - 1) :
              LET padded == PaddedOf(n)
                  first == EmittedThrough(n - 1)
                  count == EmittedThrough(n) - first
              IN /\ count >= 1
                 /\ \A i \in 0..(Len(padded) - 1) :
                       IF i + max_len < Len(padded)
                       THEN /\ i + 1 <= count
                            /\ Len(input_sequences[first + i + 1]) = max_len
                            /\ \A j \in 1..max_len :
                                  CodeOf(input_sequences[first + i + 1][j]) = padded[i + j]
                            /\ LabelCodes[first + i + 1] = padded[i + max_len + 1]
                       ELSE i + 1 > count

C20_Witness ==
    /\ pc = "windowing"
    /\ seqi = 2
    /\ max_len = 2
    /\ x_data[1] = <<1, 2>>
    /\ Len(x_data) = 2
    /\ Len(labels) = 3

\* s is the sequence orig followed by nothing but zeros.
TrailingPadded(s, orig) ==
    /\ Len(s) >= Len(orig)
    /\ SubSeq(s, 1, Len(orig)) = orig
    /\ \A j \in (Len(orig) + 1)..Len(s) : s[j] = 0

\* C17: padDataBatch returns rows that all have the length of the longest
\* input of the batch, every row being the sequence it was given followed
\* only by Pad codes (0), and a length vector whose i-th entry is the
\* unpadded length of the i-th input; inputs, labels and lengths are those
\* of the same example at every index.
C17_BatchPadding ==
    tpc = "padded" =>
        /\ Len(batch_data) = Len(idxs)
        /\ Len(batch_y) = Len(idxs)
        /\ Len(batch_lens) = Len(idxs)
        /\ \E i \in 1..Len(idxs) : Len(batch_data[1]) = Len(input_seq[idxs[i] + 1])
        /\ \A i \in 1..Len(idxs) :
              /\ Len(input_seq[idxs[i] + 1]) <= Len(batch_data[i])
              /\ Len(batch_data[i]) = Len(batch_data[1])
              /\ Len(batch_y[i]) = Len(batch_data[1])
              /\ batch_lens[i] = Len(input_seq[idxs[i] + 1])
              /\ TrailingPadded(batch_data[i], input_seq[idxs[i] + 1])
              /\ TrailingPadded(batch_y[i], output_seq[idxs[i] + 1])

C17_Witness ==
    /\ tpc = "padded"
    /\ idxs = <<1, 0>>
    /\ batch_lens = <<1, 3>>
    /\ batch_data[1] = <<1, 0, 0>>
    /\ batch_y[1] = <<2, 0, 0>>
    /\ Len(batch_data[2]) = 3

\* C18: two runs of the notebook on the same corpus give every character
\* the same code.
C18_SameCodesInBothRuns ==
    (pc = "vocab" /\ other_run.pc = "vocab") =>
        \A i \in 1..Len(char_labels) :
            /\ HasKey(other_run.char_labels, char_labels[i][1])
            /\ DictGet(other_run.char_labels, char_labels[i][1]) = char_labels[i][2]

\* C19: once built the vocabulary never changes: no windowing step and no
\* step of a generate_seq call, returning or failing, alters char_labels or
\* labels_char; a call works on the mapping it was handed and on its own
\* locals only, changes nothing else of the notebook, and leaves nothing
\* behind for the next call, which starts from its arguments.
C19_VocabularyImmutable ==
    [][/\ char_labels' = char_labels
       /\ labels_char' = labels_char
       /\ (gpc' # "idle" => mapping' = char_labels)
       /\ (gvars' # gvars => pvars' = pvars)
       /\ (gpc' = "idle" => NoCall')
       /\ (gpc = "idle" /\ gpc' = "loop" => in_text' = seed_text' /\ k' = 0)]_vars

C19_Witness ==
    /\ pc = "done"
    /\ Len(input_sequences) = 5
    /\ gpc = "KeyError"
    /\ k = 1
    /\ in_text = <<"a", "P", "A", "D">>
    /\ mapping = BuildCharLabels(chars)
    /\ char_labels = mapping

\* The four characters removeChars deletes.
Removed == {"x08", "x10", "~", "^"}

\* C21: removeChars returns its input with every occurrence of \x08, \x10,
\* '~' and '^' deleted and nothing else changed: the other characters are
\* kept, in their order and as many times as they occur.
C21_RemoveCharsDeletesOnlyTheFour ==
    pc # "read" =>
        /\ Len(all_jokes) = Len(shortjokes)
        /\ \A i \in 1..Len(shortjokes) :
              CleanedOf(i) = SelectSeq(shortjokes[i], LAMBDA c : c \notin Removed)

C21_Witness ==
    /\ pc = "cleaned"
    /\ shortjokes = << <<"x10", "a">>, <<>> >>
    /\ CleanedOf(1) = <<"a">>
    /\ CleanedOf(2) = <<>>

\* s is a prefix of t.
IsPrefix(s, t) == Len(s) <= Len(t) /\ SubSeq(t, 1, Len(s)) = s

\* C24: the text of a call only grows by appending: every step keeps the
\* text it found as a prefix of the text it leaves, so seed_text is a prefix
\* of the text after every pass and of the returned text; and a call with
\* n_chars = 0 and a model returns seed_text as it is, no window having been
\* built and the model not having been queried.
C24_TextOnlyGrows ==
    [][gpc' # "idle" =>
          /\ IsPrefix(in_text, in_text')
          /\ IsPrefix(seed_text', in_text')
          /\ (gpc' = "returned" /\ n_chars' = 0 /\ model'.kind # "none") =>
                /\ in_text' = seed_text'
                /\ encoded' = <<>>
                /\ proba' = <<>>
                /\ yhat' = -1]_vars

C24_Witness ==
    /\ gpc = "returned"
    /\ n_chars = 0
    /\ model.kind = "trained"
    /\ seed_text = <<"a", "b">>
    /\ in_text = seed_text
    /\ yhat = -1

\* The last n characters of a text (the text itself when it has fewer).
LastOf(t, n) == IF Len(t) > n THEN SubSeq(t, Len(t) - n + 1, Len(t)) ELSE t

\* The window generate_seq builds for a text.
WindowOf(d, t, W) == to_categorical(pad_sequences(TryEncode(d, t).codes, W), Len(d))

\* Texts that end as t ends: the last W characters of t, alone or with one
\* more character in front.
SameEnding(t, W) ==
    {p \o LastOf(t, W) : p \in UNION {StrsOver(SeedAlphabet, n) : n \in 0..1}}

\* C25: the window of a pass depends only on the last seq_length characters
\* of the text: a text of known characters that has at least seq_length
\* characters and agrees with in_text on the last seq_length of them gives
\* the window in_text gives, code for code (a text shorter than seq_length
\* agrees only with itself).
C25_WindowOfLastCharacters ==
    [][PassDone =>
          /\ encoded' = WindowOf(mapping, in_text, seq_length)
          /\ Len(in_text) >= seq_length =>
                LET w == CodesOf(encoded')
                IN \A t \in SameEnding(in_text, seq_length) :
                       Encodable(mapping, t) =>
                           pad_sequences(Encode(mapping, t), seq_length) = w]_vars

C25_Witness ==
    /\ gpc = "returned"
    /\ seq_length = 1
    /\ seed_text = <<"b", "a">>
    /\ n_chars = 1
    /\ k = 1
    /\ HasKey(mapping, "b")
    /\ CodesOf(encoded) = <<DictGet(mapping, "a")>>

\* A pass of generate_seq has just built its window (the pass ran to its
\* end, or failed after the window when the model was queried).
WindowBuilt == gpc = "loop" /\ (k' = k + 1 \/ gpc' = "AttributeError")

\* C26: no training window and no training label holds the Pad code 0
\* (short contexts are filled with the Start code 1), while the window
\* generate_seq builds from a text shorter than seq_length has the Pad code
\* in its seq_length - len leading positions; so that window equals no
\* training window.
C26_PadOnlyInGenerationWindows ==
    [][/\ \A p \in 1..Len(input_sequences') :
             \A j \in 1..Len(input_sequences'[p]) : CodeOf(input_sequences'[p][j]) # 0
       /\ \A p \in 1..Len(labels') :
             (IF pc' = "done" THEN CodeOf(labels'[p]) ELSE labels'[p]) # 0
       /\ (WindowBuilt /\ Len(in_text) < seq_length) =>
             /\ \A j \in 1..(seq_length - Len(in_text)) : CodeOf(encoded'[j]) = 0
             /\ \A p \in 1..Len(input_sequences) : input_sequences[p] # encoded']_vars

C26_Witness ==
    /\ pc = "done"
    /\ Len(input_sequences) >= 4
    /\ gpc = "loop"
    /\ k = 1
    /\ seed_text = <<"a">>
    /\ seq_length = 2
    /\ CodesOf(encoded) = <<0, DictGet(mapping, "a")>>
    /\ \E p \in 1..Len(input_sequences) :
          CodesOf(input_sequences[p]) = <<1, DictGet(mapping, "a")>>

\* A row of a one-hot matrix over the classes 0..n-1: a 1 at one class, 0
\* at every other.
OneHot(row, n) ==
    /\ DOMAIN row = 0..(n - 1)
    /\ \E c \in 0..(n - 1) : row[c] = 1 /\ \A j \in 0..(n - 1) : j # c => row[j] = 0

\* C27: every code of every training window, every training label and every
\* generation window is a code of the vocabulary, in 0..size-1, so that its
\* one-hot row over size classes is defined.
C27_CodesInVocabulary ==
    LET size == Len(char_labels)
    IN /\ \A n \in 1..Len(x_data) : \A j \in 1..Len(x_data[n]) : x_data[n][j] \in 0..(size - 1)
       /\ \A p \in 1..Len(input_sequences) :
             \A j \in 1..Len(input_sequences[p]) : OneHot(input_sequences[p][j], size)
       /\ \A p \in 1..Len(labels) :
             IF pc = "done" THEN OneHot(labels[p], size) ELSE labels[p] \in 0..(size - 1)
       /\ \A j \in 1..Len(encoded) : OneHot(encoded[j], Len(mapping))
       /\ gpc # "idle" => Len(mapping) = size

C27_Witness ==
    /\ pc = "done"
    /\ Len(labels) = 5
    /\ gpc = "returned"
    /\ k = 2
    /\ seq_length = 1
    /\ CodesOf(encoded) = <<Len(char_labels) - 1>>
    /\ \E p \in 1..Len(labels) : CodeOf(labels[p]) = Len(char_labels) - 1

\* C28: in the whole-sequence training data the input of a marked row z is
\* the codes of z without its last character and the label sequence the
\* codes of z without its first: both have len(z) - 1 codes, label[t] is
\* input[t+1], the input starts with the Start code 1 and has no End code
\* 2, the label sequence ends with the End code and has no Start code.
C28_ShiftedByOne ==
    tpc \in {"xy", "padded"} =>
        /\ Len(input_seq) = Len(all_jokes)
        /\ Len(output_seq) = Len(all_jokes)
        /\ \A n \in 1..Len(all_jokes) :
              LET z == all_jokes[n]
                  x == input_seq[n]
                  y == output_seq[n]
              IN /\ Len(x) = Len(z) - 1
                 /\ Len(y) = Len(z) - 1
                 /\ \A t \in 1..(Len(z) - 1) :
                       /\ x[t] = DictGet(char_labels, z[t])
                       /\ y[t] = DictGet(char_labels, z[t + 1])
                 /\ \A t \in 1..(Len(x) - 1) : y[t] = x[t + 1]
                 /\ x[1] = 1
                 /\ \A t \in 1..Len(x) : x[t] # 2
                 /\ y[Len(y)] = 2
                 /\ \A t \in 1..Len(y) : y[t] # 1

C28_Witness ==
    /\ tpc = "xy"
    /\ all_jokes = << <<"~", "a", "a", "^">>, <<"~", "^">> >>
    /\ input_seq[1] = <<1, DictGet(char_labels, "a"), DictGet(char_labels, "a")>>
    /\ output_seq[1] = <<DictGet(char_labels, "a"), DictGet(char_labels, "a"), 2>>
    /\ input_seq[2] = <<1>>
    /\ output_seq[2] = <<2>>

RECURSIVE Flat(_)
Flat(batches) == IF batches = <<>> THEN <<>> ELSE Head(batches) \o Flat(Tail(batches))

\* l holds every one of 0..n-1 exactly once.
IsPermutation(l, n) == Len(l) = n /\ {l[j] : j \in 1..Len(l)} = 0..(n - 1)

\* C23: in every pass of train the batches partition the example indices:
\* every index is in exactly one batch of the pass, every batch but the
\* last has batch_size indices, the last has between 1 and batch_size, and
\* a pass starts by shuffling all the indices.
C23_BatchesPartitionIndices ==
    [][tpc' \in {"epoch", "batches", "trained"} =>
          LET n == Len(input_seq')
              done == Flat(batches_run')
          IN /\ IsPermutation(all_idxs', n)
             /\ Len(losses') = Len(batches_run')
             /\ \A j \in 1..Len(batches_run') :
                   /\ Len(batches_run'[j]) >= 1
                   /\ Len(batches_run'[j]) <= batch_size
                   /\ j < Len(batches_run') => Len(batches_run'[j]) = batch_size
             /\ \A i, j \in 1..Len(done) : done[i] = done[j] => i = j
             /\ \A i \in 1..Len(done) : done[i] \in 0..(n - 1)
             /\ (epoch' > epoch \/ tpc' = "trained") /\ num_epochs' > 0 =>
                   IsPermutation(done, n)
             /\ (tpc = "epoch" /\ tpc' = "batches") =>
                   /\ batches_run' = <<>>
                   /\ batch_start' = 0
                   /\ epoch' = epoch
             /\ batches_run' # batches_run /\ batches_run' # <<>> =>
                   /\ tpc = "batches"
                   /\ idxs' = batches_run'[Len(batches_run')]]_vars

C23_Witness ==
    /\ tpc = "epoch"
    /\ epoch = 2
    /\ Len(input_seq) = 3
    /\ batches_run = << <<2, 0>>, <<1>> >>
    /\ all_idxs = <<2, 0, 1>>

\* C29: train evaluates the loss of every batch and nothing else: no step
\* of train changes the session's global step or weights.
C29_TrainLeavesModelUnchanged ==
    [][/\ sess' = sess
       /\ Len(losses') = Len(losses) + 1 =>
             /\ tpc = "batches"
             /\ losses'[Len(losses')] = <<"loss">>]_vars

C29_Witness ==
    /\ tpc = "trained"
    /\ num_epochs = 2
    /\ epoch = 2
    /\ Len(input_seq) = 3
    /\ Len(losses) = 2
    /\ sess = [global_step |-> 0, weights |-> 0]

====
